---------------------------- MODULE Spec2Model ----------------------------
(***************************************************************************)
(* Model of src/src/dvs_simulator_py/dvs_simulator.py: the per-pixel       *)
(* threshold-crossing detector DvsSimulator and the frame loop of          *)
(* __main__ that batches its events.                                       *)
(*                                                                         *)
(* Units.  Log-intensities live on an integer grid whose step is the       *)
(* tolerance tol = 1e-6 of update (Tol = 1 grid step), so that a change    *)
(* within the tolerance (|dI| <= 1) and a change beyond it (|dI| >= 2)     *)
(* both occur.  The contrast threshold self.C is any positive number of    *)
(* grid steps.  Time is counted in ticks of the clock of rospy.Time (one   *)
(* nanosecond): frame timestamps are rospy.Time values, hence whole        *)
(* ticks; the interpolated time te of line 74 is an exact fraction, and    *)
(* make_event turns it into a rospy.Time, which keeps whole ticks only.    *)
(* Arithmetic on intensities and times is exact (no rounding of floats).   *)
(*                                                                         *)
(* Specifications.  Spec is the simulator under calls of update that       *)
(* return; CallSpec adds the calls that fail an assertion; DriverSpec is   *)
(* the frame loop of __main__ driving the simulator, with the FrameSource  *)
(* keeping its contract (one shape, strictly increasing timestamps) and    *)
(* its data sets drawn from three intensity levels and two frame gaps.     *)
(***************************************************************************)
EXTENDS Integers, Sequences, FiniteSets, TLC

\* ------------------------------------------------------------------ bounds
MaxC == 4
MaxI == 4
MaxDt == 2
MaxTime == 2
MaxFrames == 3

\* tol = 1e-6 (line 52), the step of the intensity grid
Tol == 1

\* shapes <<height, width>> of the frames fed to the simulator
Shapes == {<<1, 1>>, <<1, 2>>}

Intensities == 0 .. MaxI

\* the pixels <<v, u>> of an array of shape <<h, w>> (row v, column u)
Pixels(shape) == (0 .. shape[1] - 1) \X (0 .. shape[2] - 1)

\* every array of log-intensities of a given shape
Arrays(shape) == [Pixels(shape) -> Intensities]

AllArrays == UNION {Arrays(s) : s \in Shapes}

\* numpy's .shape of an array
ShapeOf(a) == CHOOSE s \in Shapes : DOMAIN a = Pixels(s)

VARIABLES
    C,                 \* self.C
    height,            \* self.height
    width,             \* self.width
    reference_values,  \* self.reference_values[v,u]
    It_array,          \* self.It_array[v,u]
    t,                 \* self.t
    outcome,           \* how the last call on the simulator ended
    current_events,    \* what the last call of update returned
    same_frame,        \* the last call was given the frame already stored
    given,             \* the timestamp and the frame the last call was given
    pc,                \* where the driver is
    init_sensor,       \* the log-intensities of the first frame
    frame_id,          \* the driver's loop variable
    num_frames,        \* len(times)
    delta_event,       \* the driver's publish interval
    last_pub_event_timestamp,
    events,            \* the driver's buffer
    published,         \* the EventArray messages handed to event_pub
    returned,          \* every event update returned to the driver
    updated,           \* the frame indices the driver called update for
    shutdown           \* rospy.is_shutdown()

simVars == <<C, height, width, reference_values, It_array, t>>
histVars == <<outcome, current_events, same_frame, given>>
driverVars == <<pc, init_sensor, frame_id, num_frames, delta_event,
                last_pub_event_timestamp, events, published, returned,
                updated, shutdown>>
vars == <<simVars, histVars, driverVars>>

\* ------------------------------------------------------------ make_event

\* a / b for b # 0 and a / b >= 0, rounded down
FloorDiv(a, b) == IF b > 0 THEN a \div b ELSE (-a) \div (-b)

\* rospy.Time(secs=<float>): secs = int(f), nsecs = int((f - secs) * 1e9);
\* the fraction of a tick is dropped.  The float is whole + num / den.
Time(secs) == secs.whole + FloorDiv(secs.num, secs.den)

make_event(x, y, ts, pol) ==
    [x |-> x, y |-> y, ts |-> Time(ts), polarity |-> pol]

\* ------------------------------------------------------ DvsSimulator.update

\* line 55
Polarity(It, It_dt) == IF It_dt >= It THEN 1 ELSE -1

\* the test with the far end left out: a level equal to the new intensity
\* is no crossing
IsCrossingFarEndExclusive(cur_crossing, It, It_dt, polarity) ==
    IF polarity > 0
    THEN cur_crossing > It /\ cur_crossing < It_dt
    ELSE cur_crossing < It /\ cur_crossing > It_dt

\* the test with the near end let in: a level equal to the stored intensity
\* is a crossing
IsCrossingNearEndInclusive(cur_crossing, It, It_dt, polarity) ==
    IF polarity > 0
    THEN cur_crossing >= It /\ cur_crossing <= It_dt
    ELSE cur_crossing <= It /\ cur_crossing >= It_dt

\* lines 62-71: the test a candidate level must pass to be a crossing
IsCrossing(cur_crossing, It, It_dt, polarity) ==
    IF polarity > 0
    THEN cur_crossing > It /\ cur_crossing <= It_dt
    ELSE cur_crossing < It /\ cur_crossing >= It_dt

\* lines 57-71: the while loop; list_crossings from the level before the
\* first candidate
RECURSIVE ListCrossings(_, _, _, _, _)
ListCrossings(cur_crossing, It, It_dt, polarity, c) ==
    LET next == cur_crossing + polarity * c
    IN  IF IsCrossing(next, It, It_dt, polarity)
        THEN <<next>> \o ListCrossings(next, It, It_dt, polarity, c)
        ELSE <<>>

\* the test of line 53 without a tolerance: any change passes
AnyChange(It, It_dt) == It # It_dt

\* line 53
BeyondTolerance(It, It_dt) ==
    (IF It >= It_dt THEN It - It_dt ELSE It_dt - It) > Tol

\* the passes through the loop with the candidate advanced by the tolerance
\* step instead of C
RECURSIVE CandidateTestsFineSteps(_, _, _, _, _)
CandidateTestsFineSteps(cur_crossing, It, It_dt, polarity, c) ==
    LET next == cur_crossing + polarity * Tol
    IN  IF IsCrossing(next, It, It_dt, polarity)
        THEN 1 + CandidateTestsFineSteps(next, It, It_dt, polarity, c)
        ELSE 1

\* lines 60-71: the number of passes through the while loop, each of which
\* advances the candidate and tests it; the pass whose test fails is the last
RECURSIVE CandidateTests(_, _, _, _, _)
CandidateTests(cur_crossing, It, It_dt, polarity, c) ==
    LET next == cur_crossing + polarity * c
    IN  IF IsCrossing(next, It, It_dt, polarity)
        THEN 1 + CandidateTests(next, It, It_dt, polarity, c)
        ELSE 1

\* lines 53-71 for one pixel: the candidate tests of a call (none when the
\* change is within the tolerance: the loop is not entered)
TestsForPx(It, It_dt, previous_crossing, c) ==
    IF BeyondTolerance(It, It_dt)
    THEN CandidateTests(previous_crossing, It, It_dt, Polarity(It, It_dt), c)
    ELSE 0

\* the interpolation without the start of the interval
InterpolatedTimeNoOffset(t0, crossing, It, It_dt, delta_t) ==
    [whole |-> 0, num |-> (crossing - It) * delta_t, den |-> It_dt - It]

\* line 74: te = self.t + (crossing - It) * delta_t / (It_dt - It)
InterpolatedTime(t0, crossing, It, It_dt, delta_t) ==
    [whole |-> t0, num |-> (crossing - It) * delta_t, den |-> It_dt - It]

\* the scan started from the stored intensity instead of the reference level
CrossingsForPxFromIntensity(It, It_dt, previous_crossing, c) ==
    IF BeyondTolerance(It, It_dt)
    THEN ListCrossings(It, It, It_dt, Polarity(It, It_dt), c)
    ELSE <<>>

\* lines 46-80 for one pixel: its list of crossings
CrossingsForPx(It, It_dt, previous_crossing, c) ==
    IF BeyondTolerance(It, It_dt)
    THEN ListCrossings(previous_crossing, It, It_dt, Polarity(It, It_dt), c)
    ELSE <<>>

\* events_for_px with the crossings taken last first
EventsForPxReversed(u, v, It, It_dt, previous_crossing, c, t0, delta_t) ==
    LET list_crossings == CrossingsForPx(It, It_dt, previous_crossing, c)
        n == Len(list_crossings)
    IN  [i \in 1 .. n |->
            make_event(u, v,
                       InterpolatedTime(t0, list_crossings[n + 1 - i], It,
                                        It_dt, delta_t),
                       Polarity(It, It_dt) > 0)]

\* lines 73-75 for one pixel: events_for_px
EventsForPx(u, v, It, It_dt, previous_crossing, c, t0, delta_t) ==
    LET list_crossings == CrossingsForPx(It, It_dt, previous_crossing, c)
    IN  [i \in 1 .. Len(list_crossings) |->
            make_event(u, v,
                       InterpolatedTime(t0, list_crossings[i], It, It_dt,
                                        delta_t),
                       Polarity(It, It_dt) > 0)]

\* the reference level reset to the new intensity when nothing was crossed
NewReferenceReset(It, It_dt, previous_crossing, c) ==
    LET list_crossings == CrossingsForPx(It, It_dt, previous_crossing, c)
    IN  IF list_crossings # <<>>
        THEN list_crossings[Len(list_crossings)]
        ELSE It_dt

\* the reference level set to the first crossing found instead of the last
NewReferenceFirst(It, It_dt, previous_crossing, c) ==
    LET list_crossings == CrossingsForPx(It, It_dt, previous_crossing, c)
    IN  IF list_crossings # <<>>
        THEN list_crossings[1]
        ELSE previous_crossing

\* lines 79-80 for one pixel: the reference level after the call
NewReference(It, It_dt, previous_crossing, c) ==
    LET list_crossings == CrossingsForPx(It, It_dt, previous_crossing, c)
    IN  IF list_crossings # <<>>
        THEN list_crossings[Len(list_crossings)]
        ELSE previous_crossing

\* lines 44-45: the k-th pixel <<v, u>> visited, columns outermost
PixelAt(k, h) == <<k % h, k \div h>>

\* current_events with every pixel scanned from the reference level of the
\* first pixel visited
RECURSIVE EventsFromSharedReference(_, _, _, _, _, _, _, _)
EventsFromSharedReference(k, h, w, It, It_dt, ref, c, tt) ==
    IF k >= h * w THEN <<>>
    ELSE LET p == PixelAt(k, h)
         IN  EventsForPx(p[2], p[1], It[p], It_dt[p], ref[PixelAt(0, h)], c,
                         tt.t0, tt.delta_t)
             \o EventsFromSharedReference(k + 1, h, w, It, It_dt, ref, c, tt)

\* lines 43-77: current_events, the pixels' events in the order of the loops
RECURSIVE EventsFrom(_, _, _, _, _, _, _, _)
EventsFrom(k, h, w, It, It_dt, ref, c, tt) ==
    IF k >= h * w THEN <<>>
    ELSE LET p == PixelAt(k, h)
         IN  EventsForPx(p[2], p[1], It[p], It_dt[p], ref[p], c,
                         tt.t0, tt.delta_t)
             \o EventsFrom(k + 1, h, w, It, It_dt, ref, c, tt)

\* the assertions with delta_t >= 0 in place of delta_t > 0
UpdateAcceptsEqualTime(t_dt, It_dt_array) ==
    /\ ShapeOf(It_dt_array) = ShapeOf(It_array)
    /\ t_dt - t >= 0

\* lines 38-41: the two assertions
UpdateAccepts(t_dt, It_dt_array) ==
    /\ ShapeOf(It_dt_array) = ShapeOf(It_array)
    /\ t_dt - t > 0

\* lines 44-80: self.reference_values after the loops
NewReferenceValues(It, It_dt, ref, c) ==
    [p \in DOMAIN ref |-> NewReference(It[p], It_dt[p], ref[p], c)]

\* lines 43-85: the list update returns, from the fields it starts with
Returned(h, w, It, ref, c, t0, t_dt, It_dt) ==
    EventsFrom(0, h, w, It, It_dt, ref, c, [t0 |-> t0, delta_t |-> t_dt - t0])

\* update with line 82 storing the new intensity only of the pixels that
\* changed beyond the tolerance
UpdateReturnsKeepsSkipped(t_dt, It_dt_array) ==
    /\ reference_values' =
          NewReferenceValues(It_array, It_dt_array, reference_values, C)
    /\ It_array' =
          [p \in DOMAIN It_array |->
              IF BeyondTolerance(It_array[p], It_dt_array[p])
              THEN It_dt_array[p] ELSE It_array[p]]
    /\ t' = t_dt
    /\ UNCHANGED <<C, height, width>>
    /\ current_events' =
          Returned(height, width, It_array, reference_values, C, t, t_dt,
                   It_dt_array)
    /\ outcome' = "returned"
    /\ same_frame' = (It_dt_array = It_array)
    /\ given' = [t_dt |-> t_dt, It_dt_array |-> It_dt_array]

\* DvsSimulator.update, both assertions passing (lines 40-85)
UpdateReturns(t_dt, It_dt_array) ==
    /\ reference_values' =
          NewReferenceValues(It_array, It_dt_array, reference_values, C)
    /\ It_array' = It_dt_array
    /\ t' = t_dt
    /\ UNCHANGED <<C, height, width>>
    /\ current_events' =
          Returned(height, width, It_array, reference_values, C, t, t_dt,
                   It_dt_array)
    /\ outcome' = "returned"
    /\ same_frame' = (It_dt_array = It_array)
    /\ given' = [t_dt |-> t_dt, It_dt_array |-> It_dt_array]

\* DvsSimulator.update, an assertion failing (lines 38 and 41): it raises
\* before any field is written and returns nothing
UpdateRaises(t_dt, It_dt_array) ==
    /\ UNCHANGED simVars
    /\ current_events' = <<>>
    /\ outcome' = IF ShapeOf(It_dt_array) # ShapeOf(It_array)
                  THEN "raised_shape" ELSE "raised_delta_t"
    /\ same_frame' = (It_dt_array = It_array)
    /\ given' = [t_dt |-> t_dt, It_dt_array |-> It_dt_array]

\* ------------------------------------------------- the simulator on its own

DriverIdle ==
    /\ pc = "none"
    /\ init_sensor = <<>>
    /\ frame_id = 0
    /\ num_frames = 0
    /\ delta_event = 0
    /\ last_pub_event_timestamp = 0
    /\ events = <<>>
    /\ published = <<>>
    /\ returned = <<>>
    /\ updated = <<>>
    /\ shutdown = FALSE

\* DvsSimulator.__init__ (lines 25-34)
Construct(initial_time, initial_values, c) ==
    /\ c > 0
    /\ C = c
    /\ height = ShapeOf(initial_values)[1]
    /\ width = ShapeOf(initial_values)[2]
    /\ reference_values = initial_values
    /\ It_array = initial_values
    /\ t = initial_time
    /\ outcome = "constructed"
    /\ current_events = <<>>
    /\ same_frame = FALSE
    /\ given = [t_dt |-> initial_time, It_dt_array |-> initial_values]

\* the contrast thresholds tried: every one coarser than the tolerance, as
\* the thresholds in use are (contrast_p defaults to 0.15, tol is 1e-6)
Thresholds == Tol + 1 .. MaxC

Init ==
    /\ \E c \in Thresholds, initial_values \in AllArrays :
          Construct(0, initial_values, c)
    /\ DriverIdle

\* the timestamps offered to update: the stored one, one tick earlier, and
\* up to MaxDt ticks later
Timestamps == (IF t > 0 THEN t - 1 ELSE 0) .. t + MaxDt

\* a call of update that passes both assertions
Update ==
    \E t_dt \in Timestamps, It_dt_array \in AllArrays :
        /\ t_dt <= MaxTime
        /\ UpdateAccepts(t_dt, It_dt_array)
        /\ UpdateReturns(t_dt, It_dt_array)
        /\ UNCHANGED driverVars

\* the frames offered to a call that fails: the stored frame again, and a
\* dark frame of every shape
RejectedArrays == {It_array} \cup {[p \in Pixels(s) |-> 0] : s \in Shapes}

\* a call of update that fails an assertion
UpdateRejected ==
    \E t_dt \in Timestamps, It_dt_array \in RejectedArrays :
        /\ ~UpdateAccepts(t_dt, It_dt_array)
        /\ UpdateRaises(t_dt, It_dt_array)
        /\ UNCHANGED driverVars

\* the simulator under calls of update that return
Next == Update

Spec == Init /\ [][Next]_vars

\* the simulator under every call of update, those that raise included
CallNext == Update \/ UpdateRejected

CallSpec == Init /\ [][CallNext]_vars

\* ------------------------------------------------------- the driver, __main__
\* The FrameSource keeps its contract: the frames have one shape and
\* strictly increasing timestamps (times[], read as rospy.Time values).

\* sorted(events, key=lambda e: e.ts) without the sorting
Unsorted(evs) == evs

\* sorted(...): e put into a list sorted by ts, after the events that are
\* not later than it (the sort is stable)
RECURSIVE Insert(_, _)
Insert(e, sorted) ==
    IF sorted = <<>> THEN <<e>>
    ELSE IF sorted[Len(sorted)].ts <= e.ts THEN Append(sorted, e)
    ELSE Append(Insert(e, SubSeq(sorted, 1, Len(sorted) - 1)),
                sorted[Len(sorted)])

\* line 337: sorted(events, key=lambda e: e.ts)
RECURSIVE Sorted(_)
Sorted(evs) ==
    IF evs = <<>> THEN <<>>
    ELSE Insert(evs[Len(evs)], Sorted(SubSeq(evs, 1, Len(evs) - 1)))

\* lines 338-343: the EventArray handed to event_pub.publish
EventArray(stamp, evs) == [stamp |-> stamp, events |-> evs]

\* the test of line 336 passing already when the interval has just elapsed
PublishDueAtInterval(timestamp) ==
    timestamp - last_pub_event_timestamp >= delta_event

\* line 336
PublishDue(timestamp) == timestamp - last_pub_event_timestamp > delta_event

\* the publish intervals tried (delta_event, line 171), in ticks
PublishIntervals == {1, MaxDt}

\* the data sets tried: every pixel of every frame is dark, one tolerance
\* step above dark, or bright
DatasetIntensities == {0, Tol, MaxI}

DatasetArrays(shape) == [Pixels(shape) -> DatasetIntensities]

\* the gaps between the timestamps of consecutive frames, in ticks
FrameGaps == {1, MaxDt}

\* lines 147-246: the parameters, the data set, the first frame, the
\* simulator
DriverInit ==
    /\ \E cp \in Thresholds, img \in UNION {DatasetArrays(s) : s \in Shapes} :
          /\ init_sensor = img
          /\ Construct(0, init_sensor, cp)
    /\ num_frames \in 1 .. MaxFrames
    /\ delta_event \in PublishIntervals
    /\ last_pub_event_timestamp = 0
    /\ events = <<>>
    /\ published = <<>>
    /\ returned = <<>>
    /\ updated = <<>>
    /\ shutdown = FALSE
    /\ frame_id = 1
    /\ pc = "loop"

\* lines 313-349: compute the events of this frame, then publish if due
ComputeAndPublish(timestamp, img) ==
    /\ UpdateAccepts(timestamp, img)
    /\ UpdateReturns(timestamp, img)
    /\ returned' = returned \o current_events'
    /\ IF PublishDue(timestamp)
       THEN /\ published' =
                 Append(published,
                        EventArray(timestamp,
                                   Sorted(events \o current_events')))
            /\ events' = <<>>
            /\ last_pub_event_timestamp' = timestamp
       ELSE /\ events' = events \o current_events'
            /\ UNCHANGED <<published, last_pub_event_timestamp>>

\* the iteration entered without the test of rospy.is_shutdown()
StartFrameUntested ==
    /\ pc = "loop"
    /\ frame_id < num_frames
    /\ pc' = "frame"
    /\ UNCHANGED <<simVars, histVars, init_sensor, frame_id, num_frames,
                   delta_event, last_pub_event_timestamp, events, published,
                   returned, updated, shutdown>>

\* lines 249-252: a frame is left and rospy.is_shutdown() is false: the
\* iteration is entered
StartFrame ==
    /\ pc = "loop"
    /\ frame_id < num_frames
    /\ ~shutdown
    /\ pc' = "frame"
    /\ UNCHANGED <<simVars, histVars, init_sensor, frame_id, num_frames,
                   delta_event, last_pub_event_timestamp, events, published,
                   returned, updated, shutdown>>

\* lines 254-349: the rest of the iteration, whatever rospy.is_shutdown()
\* has become meanwhile
FrameStep ==
    /\ pc = "frame"
    /\ \E gap \in FrameGaps, img \in DatasetArrays(<<height, width>>) :
          ComputeAndPublish(t + gap, img)
    /\ updated' = Append(updated, frame_id)
    /\ frame_id' = frame_id + 1
    /\ pc' = "loop"
    /\ UNCHANGED <<init_sensor, num_frames, delta_event, shutdown>>

\* lines 351-353: what follows the loop
AfterLoop ==
    /\ pc' = "done"
    /\ UNCHANGED <<simVars, histVars, init_sensor, frame_id, num_frames,
                   delta_event, last_pub_event_timestamp, events, published,
                   returned, updated, shutdown>>

\* lines 251-252: rospy.is_shutdown() seen at the start of an iteration
Break ==
    /\ pc = "loop"
    /\ frame_id < num_frames
    /\ shutdown
    /\ AfterLoop

\* line 249: no frame is left
Exhausted ==
    /\ pc = "loop"
    /\ frame_id = num_frames
    /\ AfterLoop

\* the node is told to shut down, between two iterations or during one
SignalShutdown ==
    /\ pc \in {"loop", "frame"}
    /\ ~shutdown
    /\ shutdown' = TRUE
    /\ UNCHANGED <<simVars, histVars, pc, init_sensor, frame_id, num_frames,
                   delta_event, last_pub_event_timestamp, events, published,
                   returned, updated>>

DriverNext ==
    StartFrame \/ FrameStep \/ Break \/ Exhausted \/ SignalShutdown

DriverSpec == DriverInit /\ [][DriverNext]_vars

\* ------------------------------------------------------------------ claims
\* What the claims speak of, for one pixel p = <<v, u>> of a step of update.

\* the events of pixel p in a returned list, in the order of the list
EventsOf(evs, p) == SelectSeq(evs, LAMBDA e : e.x = p[2] /\ e.y = p[1])

Abs(x) == IF x >= 0 THEN x ELSE -x

\* the sign of the change of intensity (+1 also for no change)
Sign(I0, I1) == IF I1 >= I0 THEN 1 ELSE -1

\* the k-th level beyond the reference, in the direction of the change
Level(ref, k, I0, I1, c) == ref + k * Sign(I0, I1) * c

\* the level lies beyond I0 and at-or-before I1
Crossed(level, I0, I1) ==
    /\ Sign(I0, I1) * (level - I0) > 0
    /\ Sign(I0, I1) * (I1 - level) >= 0

\* how many levels ref + k*polarity*C (k >= 1) the intensity went over
NumCrossed(ref, I0, I1, c) ==
    Cardinality({k \in 1 .. MaxI : Crossed(Level(ref, k, I0, I1, c), I0, I1)})

\* the step taken is a call of update that returned
Returning == outcome' = "returned"

StrictlyIncreasing(evs) ==
    \A i \in 1 .. Len(evs) - 1 : evs[i].ts < evs[i + 1].ts

NonDecreasing(evs) ==
    \A i \in 1 .. Len(evs) - 1 : evs[i].ts <= evs[i + 1].ts

\* C1 (as claimed): every call of update that returns emits, for every pixel,
\* as many events as there are levels reference + k*polarity*C (k >= 1)
\* beyond the stored intensity I0 and at-or-before the new intensity I1.
C1_NoMissedCrossings ==
    [][Returning =>
        \A p \in DOMAIN It_array :
            Len(EventsOf(current_events', p)) =
                NumCrossed(reference_values[p], It_array[p], It_array'[p], C)
      ]_vars

\* C2 (as claimed): in every state every pixel's stored intensity is less
\* than C away from its reference level.
C2_NoPendingCrossing ==
    \A p \in DOMAIN It_array : Abs(It_array[p] - reference_values[p]) < C

\* C3 (as claimed): after a call of update that returns, every pixel whose
\* intensity changed by more than the tolerance has
\* 0 <= polarity*(I1 - reference_level) < C, crossing or no crossing.
C3_ReferenceBehindIntensity ==
    [][Returning =>
        \A p \in DOMAIN It_array :
            Abs(It_array'[p] - It_array[p]) > Tol =>
                LET d == Sign(It_array[p], It_array'[p])
                         * (It_array'[p] - reference_values'[p])
                IN  0 <= d /\ d < C
      ]_vars

\* C3 (amended): after a call of update that returns, every pixel for which
\* the call emitted an event has 0 <= polarity*(I1 - reference_level) < C,
\* and every pixel for which it emitted none keeps its reference level.
C3_ReferenceBehindAfterCrossing ==
    [][Returning =>
        \A p \in DOMAIN It_array :
            IF Len(EventsOf(current_events', p)) > 0
            THEN LET d == Sign(It_array[p], It_array'[p])
                          * (It_array'[p] - reference_values'[p])
                 IN  0 <= d /\ d < C
            ELSE reference_values'[p] = reference_values[p]
      ]_vars

\* C3 witness: a call returned an event of negative polarity for a pixel and
\* left that pixel's reference level strictly above its new intensity.
C3_Witness ==
    /\ outcome = "returned"
    /\ \E p \in DOMAIN It_array :
          /\ Len(EventsOf(current_events, p)) >= 1
          /\ EventsOf(current_events, p)[1].polarity = FALSE
          /\ reference_values[p] > It_array[p]

\* the i-th event of a pixel carries the interpolated time of the i-th level
\* exactly: (ts - t0) * (I1 - I0) = (c - I0) * (t1 - t0)
ExactStamp(ts, i, ref, I0, I1, c, t0, t1) ==
    (ts - t0) * (I1 - I0) = (Level(ref, i, I0, I1, c) - I0) * (t1 - t0)

\* the i-th event of a pixel carries the interpolated time of the i-th level
\* cut to whole ticks of the clock
CutStamp(ts, i, ref, I0, I1, c, t0, t1) ==
    LET a == Sign(I0, I1) * (Level(ref, i, I0, I1, c) - I0) * (t1 - t0)
        b == Sign(I0, I1) * (I1 - I0)
    IN  /\ b * (ts - t0) <= a
        /\ a < b * (ts - t0 + 1)
        /\ 0 < a /\ a <= b * (t1 - t0)

\* C5 (as claimed): every event a returning call of update emits for a
\* crossing level c carries the time t0 + (c-I0)*(t1-t0)/(I1-I0) exactly,
\* and that time is after t0 and at or before t1.
C5_ExactInterpolation ==
    [][Returning =>
        \A p \in DOMAIN It_array :
            LET evs == EventsOf(current_events', p)
            IN  \A i \in 1 .. Len(evs) :
                    /\ ExactStamp(evs[i].ts, i, reference_values[p],
                                  It_array[p], It_array'[p], C, t, t')
                    /\ t < evs[i].ts /\ evs[i].ts <= t'
      ]_vars

\* C5 (amended): every event a returning call of update emits for a crossing
\* level c carries the time te = t0 + (c-I0)*(t1-t0)/(I1-I0) cut to a whole
\* tick of the clock (te - 1 tick < ts <= te); te is after t0 and at or
\* before t1, and the event's time is at or after t0 and at or before t1.
C5_InterpolationCutToTicks ==
    [][Returning =>
        \A p \in DOMAIN It_array :
            LET evs == EventsOf(current_events', p)
            IN  \A i \in 1 .. Len(evs) :
                    /\ CutStamp(evs[i].ts, i, reference_values[p],
                                It_array[p], It_array'[p], C, t, t')
                    /\ t <= evs[i].ts /\ evs[i].ts <= t'
      ]_vars

\* C5 witness: the scenario of the claim on the model's grid: C = 2, a pixel
\* taken from 0 to 4 between t = 0 and t = 2 fired at the levels 2 and 4,
\* at the times 1 and 2.
C5_Witness ==
    /\ outcome = "returned"
    /\ C = 2
    /\ t = 2
    /\ \E p \in DOMAIN It_array :
          /\ It_array[p] = 4
          /\ reference_values[p] = 4
          /\ Len(EventsOf(current_events, p)) = 2
          /\ EventsOf(current_events, p)[1].ts = 1
          /\ EventsOf(current_events, p)[2].ts = 2
          /\ EventsOf(current_events, p)[1].polarity = TRUE

Raising == outcome' \in {"raised_shape", "raised_delta_t"}

\* C7: a call of update with a frame of another shape, or with a timestamp
\* that is not later than the stored one, raises; a call that raises returns
\* no events and leaves the stored frame, the stored timestamp and every
\* reference level as they were (so the calls after it see the same
\* simulator).
C7_RejectedCallChangesNothing ==
    [][/\ Raising =>
            /\ UNCHANGED simVars
            /\ current_events' = <<>>
       /\ Returning =>
            /\ DOMAIN It_array' = DOMAIN It_array
            /\ t' > t
      ]_vars

\* C7 witness: a call with a timestamp that is not later than the stored one
\* raised on a simulator that had already fired (a reference level differs
\* from the intensity).
C7_Witness ==
    /\ outcome = "raised_delta_t"
    /\ t > 0
    /\ \E p \in DOMAIN It_array : reference_values[p] # It_array[p]

\* C8: a call of update with the frame already stored (and a later
\* timestamp) returns no events and keeps every reference level, and every
\* call after it returns the events, and leaves the reference levels, that
\* the same call would have from the state before it with the stored
\* timestamp moved to the one in between.
C8_SameFrameIsIdle ==
    [][(Returning /\ It_array' = It_array) =>
        /\ current_events' = <<>>
        /\ reference_values' = reference_values
        /\ \A t2 \in t' + 1 .. t' + MaxDt, F \in Arrays(<<height, width>>) :
              /\ Returned(height', width', It_array', reference_values', C',
                          t', t2, F)
                    = Returned(height, width, It_array, reference_values, C,
                               t', t2, F)
              /\ NewReferenceValues(It_array', F, reference_values', C')
                    = NewReferenceValues(It_array, F, reference_values, C)
      ]_vars

\* C8 witness: a call with the frame already stored returned, on a simulator
\* whose reference level differs from the intensity at some pixel.
C8_Witness ==
    /\ outcome = "returned"
    /\ same_frame
    /\ current_events = <<>>
    /\ \E p \in DOMAIN It_array : reference_values[p] # It_array[p]

\* the events of all published batches, in the order of publication
RECURSIVE Concatenated(_)
Concatenated(batches) ==
    IF batches = <<>> THEN <<>>
    ELSE Concatenated(SubSeq(batches, 1, Len(batches) - 1))
         \o batches[Len(batches)].events

\* C4 (as claimed): every published batch is sorted by time, none of its
\* events is later than the batch's tag, and every event of the next batch
\* is strictly later than that tag; the batches on end are non-decreasing.
C4_BatchesStrictlyAfterTag ==
    /\ \A n \in 1 .. Len(published) :
          /\ NonDecreasing(published[n].events)
          /\ \A i \in 1 .. Len(published[n].events) :
                published[n].events[i].ts <= published[n].stamp
    /\ \A n \in 1 .. Len(published) - 1 :
          \A i \in 1 .. Len(published[n + 1].events) :
              published[n + 1].events[i].ts > published[n].stamp
    /\ NonDecreasing(Concatenated(published))

\* C4 (amended): every published batch is sorted by time, none of its events
\* is later than the batch's tag, and no event of the next batch is earlier
\* than that tag (it can carry the tag's very time); the batches on end are
\* non-decreasing.
C4_BatchesNotBeforeTag ==
    /\ \A n \in 1 .. Len(published) :
          /\ NonDecreasing(published[n].events)
          /\ \A i \in 1 .. Len(published[n].events) :
                published[n].events[i].ts <= published[n].stamp
    /\ \A n \in 1 .. Len(published) - 1 :
          /\ published[n].stamp < published[n + 1].stamp
          /\ \A i \in 1 .. Len(published[n + 1].events) :
                published[n + 1].events[i].ts >= published[n].stamp
    /\ NonDecreasing(Concatenated(published))

\* C4 witness: two batches were published, each with events, the second one
\* with events of two pixels that update returned out of time order.
C4_Witness ==
    /\ Len(published) = 2
    /\ published[1].events # <<>>
    /\ Len(published[2].events) >= 2
    /\ ~NonDecreasing(current_events)
    /\ \E i, j \in 1 .. Len(published[2].events) :
          published[2].events[i].x # published[2].events[j].x

\* C9 (as claimed): when the driver has stopped, every event update returned
\* has been handed to the sink: the buffer is empty and the published
\* batches hold as many events as update returned, each of them.
C9_FlushedAtStop ==
    pc = "done" =>
        /\ events = <<>>
        /\ Len(Concatenated(published)) = Len(returned)
        /\ \A i \in 1 .. Len(returned) :
              \E j \in 1 .. Len(Concatenated(published)) :
                  Concatenated(published)[j] = returned[i]

\* C10: in every state of a run, every pixel's reference level is that
\* pixel's log-intensity in the first frame plus a whole (positive, zero or
\* negative) multiple of C.
C10_ReferenceOnGridOfFirstFrame ==
    \A p \in DOMAIN reference_values :
        \E k \in -MaxI .. MaxI :
            reference_values[p] = init_sensor[p] + k * C

\* C10 witness: after two frames a pixel's reference level is two steps of C
\* below its first log-intensity, and its stored intensity is off that grid.
C10_Witness ==
    /\ frame_id = 3
    /\ \E p \in DOMAIN reference_values :
          /\ reference_values[p] = init_sensor[p] - 2 * C
          /\ (It_array[p] - init_sensor[p]) % C # 0

\* C11: a call of update that returns changes a pixel's reference level if
\* and only if it returns an event for that pixel, and the new level is the
\* old one moved by (number of the pixel's events) * polarity * C: the level
\* of the last crossing, whose interpolated time the pixel's last event
\* carries (cut to a tick).
C11_ReferenceMovesWithEvents ==
    [][Returning =>
        \A p \in DOMAIN It_array :
            LET evs == EventsOf(current_events', p)
                n == Len(evs)
            IN  /\ (reference_values'[p] # reference_values[p]) <=> (n > 0)
                /\ reference_values'[p] =
                      reference_values[p]
                          + n * Sign(It_array[p], It_array'[p]) * C
                /\ n > 0 =>
                      /\ reference_values'[p] =
                            Level(reference_values[p], n, It_array[p],
                                  It_array'[p], C)
                      /\ CutStamp(evs[n].ts, n, reference_values[p],
                                  It_array[p], It_array'[p], C, t, t')
      ]_vars

\* C11 witness: a call returned two events for one pixel, whose reference
\* level moved by two steps, and none for another pixel whose intensity
\* moved off its reference level.
C11_Witness ==
    /\ outcome = "returned"
    /\ \E p, q \in DOMAIN It_array :
          /\ Len(EventsOf(current_events, p)) = 2
          /\ reference_values[p] = 2 * C
          /\ Len(EventsOf(current_events, q)) = 0
          /\ reference_values[q] # It_array[q]

\* C12: after every call of update that returns, the stored frame is the
\* frame the call was given, at every pixel (also those that returned no
\* event and those within the tolerance), the stored timestamp is the
\* timestamp it was given, and width, height and C are what they were.
C12_SnapshotIsGivenFrame ==
    [][Returning =>
        /\ It_array' = given'.It_dt_array
        /\ t' = given'.t_dt
        /\ UNCHANGED <<C, height, width>>
      ]_vars

\* C12 witness: a call returned no event for a pixel whose given intensity
\* lies a whole step C above its reference level (a level the pixel reached
\* by a change within the tolerance), and stored that intensity.
C12_Witness ==
    /\ outcome = "returned"
    /\ t = given.t_dt
    /\ \E p \in DOMAIN It_array :
          /\ Len(EventsOf(current_events, p)) = 0
          /\ given.It_dt_array[p] = reference_values[p] + C
          /\ It_array[p] = given.It_dt_array[p]

\* C13: in a call of update that returns, a pixel whose scan reaches a
\* candidate level equal to the new intensity I1 gets an event for it (timed
\* at the call's timestamp) and that level as its reference; a first
\* candidate equal to the stored intensity I0 yields no event and ends the
\* scan, in the call itself and from any intensity the call may store; and a
\* level fired by landing on I1 is not among the crossings of the call that
\* follows, whichever intensity that call is given.
C13_FarEndInclusiveNearEndExclusive ==
    [][Returning =>
        \A p \in DOMAIN It_array :
            LET evs == EventsOf(current_events', p)
                n == Len(evs)
                I0 == It_array[p]
                I1 == It_array'[p]
                ref == reference_values[p]
            IN  /\ ( /\ BeyondTolerance(I0, I1)
                     /\ Crossed(Level(ref, 1, I0, I1, C), I0, I1)
                     /\ (I1 - ref) % C = 0 ) =>
                        /\ n >= 1
                        /\ evs[n].ts = t'
                        /\ reference_values'[p] = I1
                /\ Level(ref, 1, I0, I1, C) = I0 =>
                        /\ n = 0
                        /\ reference_values'[p] = ref
                /\ \A I2 \in Intensities :
                        CrossingsForPx(I1, I2, I1 - Polarity(I1, I2) * C, C)
                            = <<>>
                /\ (n >= 1 /\ reference_values'[p] = I1) =>
                        \A I2 \in Intensities :
                            LET following == CrossingsForPx(I1, I2, I1, C)
                            IN  \A i \in 1 .. Len(following) :
                                    following[i] # I1
      ]_vars

\* C13 witness: a call took a pixel down onto a level exactly: it returned
\* an event of negative polarity timed at the call's timestamp, and the
\* pixel's reference level is its stored intensity, below its first one.
C13_Witness ==
    /\ outcome = "returned"
    /\ \E p \in DOMAIN It_array :
          LET evs == EventsOf(current_events, p)
          IN  /\ Len(evs) >= 1
              /\ evs[Len(evs)].polarity = FALSE
              /\ evs[Len(evs)].ts = t
              /\ reference_values[p] = It_array[p]

\* C14: the events a call of update returns for a pixel all carry one
\* polarity: positive when the new intensity I1 is greater than the stored
\* intensity I0, negative when it is less; and the call returns no event for
\* a pixel with |I1 - I0| within the tolerance.
C14_PolarityIsDirectionOfChange ==
    [][Returning =>
        \A p \in DOMAIN It_array :
            LET evs == EventsOf(current_events', p)
            IN  /\ \A i \in 1 .. Len(evs) :
                      /\ evs[i].polarity = (It_array'[p] > It_array[p])
                      /\ (~evs[i].polarity) = (It_array'[p] < It_array[p])
                /\ Abs(It_array'[p] - It_array[p]) <= Tol => evs = <<>>
      ]_vars

\* C14 witness: one call returned two events of negative polarity for a
\* pixel that got darker and an event of positive polarity for a pixel that
\* got brighter.
C14_Witness ==
    /\ outcome = "returned"
    /\ \E p, q \in DOMAIN It_array :
          /\ Len(EventsOf(current_events, p)) = 2
          /\ \A i \in 1 .. 2 : ~EventsOf(current_events, p)[i].polarity
          /\ It_array[p] < reference_values[p] + C
          /\ Len(EventsOf(current_events, q)) >= 1
          /\ EventsOf(current_events, q)[1].polarity

\* an array that agrees with a at pixel p and differs from it at every
\* other pixel
DifferingElsewhere(a, p) ==
    [q \in DOMAIN a |-> IF q = p THEN a[p] ELSE (a[q] + 1) % (MaxI + 1)]

\* C15: what a call of update that returns does to a pixel depends on that
\* pixel alone: the events it returns for pixel p and the reference level it
\* leaves p are those of the scan of p's own stored intensity, new intensity
\* and reference level; and from a simulator state that agrees with this
\* one at p (same C and timestamp) and differs at every other pixel, a call
\* with the same timestamp and a frame that agrees with the given one at p
\* and differs at every other pixel returns the same events for p and
\* leaves p the same reference level.
\* Two runs that agree on a pixel's intensities and on the timestamps agree,
\* step after step, on that pixel's events and reference level.
C15_PixelsAreIndependent ==
    [][Returning =>
        \A p \in DOMAIN It_array :
          /\ EventsOf(current_events', p) =
                EventsForPx(p[2], p[1], It_array[p], It_array'[p],
                            reference_values[p], C, t, t' - t)
          /\ reference_values'[p] =
                NewReference(It_array[p], It_array'[p], reference_values[p],
                             C)
          /\ LET It2 == DifferingElsewhere(It_array, p)
                 ref2 == DifferingElsewhere(reference_values, p)
                 F2 == DifferingElsewhere(It_array', p)
             IN  /\ EventsOf(Returned(height, width, It2, ref2, C, t, t',
                                      F2), p)
                       = EventsOf(current_events', p)
                 /\ NewReferenceValues(It2, F2, ref2, C)[p]
                       = reference_values'[p]
      ]_vars

\* C15 witness: a call returned events for two pixels, of opposite
\* polarities and in different numbers.
C15_Witness ==
    /\ outcome = "returned"
    /\ \E p, q \in DOMAIN It_array :
          /\ Len(EventsOf(current_events, p)) = 1
          /\ EventsOf(current_events, p)[1].polarity
          /\ Len(EventsOf(current_events, q)) = 2
          /\ ~EventsOf(current_events, q)[1].polarity

\* C16: the driver calls update for the frame indices 1, 2, ... in this
\* order, once each and never for frame 0, and for all of 1 .. N-1 unless it
\* was told to shut down; update is called, the buffer written and a batch
\* published only inside an iteration; rospy.is_shutdown() is tested where
\* an iteration starts only, so an iteration that has started calls update
\* and takes its batching decision whether or not the signal has arrived
\* meanwhile, and once the signal is seen at the start of an iteration no
\* update and no publish follows.
C16_OneUpdatePerFrameUntilCancelled ==
    [][/\ updated' = [i \in 1 .. frame_id' - 1 |-> i]
       /\ pc' = "done" => (frame_id' = num_frames \/ shutdown')
       /\ ( \/ updated' # updated \/ t' # t \/ outcome' # outcome
            \/ published' # published \/ events' # events
            \/ returned' # returned ) => pc = "frame"
       /\ (pc = "loop" /\ pc' = "frame") => ~shutdown
       /\ pc = "frame" =>
            \/ pc' = "frame" /\ shutdown' /\ ~shutdown
            \/ /\ pc' = "loop"
               /\ updated' = Append(updated, frame_id)
               /\ outcome' = "returned"
               /\ t' > t
               /\ returned' = returned \o current_events'
               /\ \/ /\ Len(published') = Len(published) + 1
                     /\ events' = <<>>
                  \/ /\ published' = published
                     /\ events' = events \o current_events'
       /\ (pc = "loop" /\ shutdown /\ frame_id < num_frames) =>
            /\ pc' = "done"
            /\ UNCHANGED <<simVars, published, events, updated>>
       /\ pc # "done"
      ]_vars

\* C16 witness: the driver has stopped on the shutdown signal with frames
\* left, after one iteration that called update for frame 1 and published a
\* batch.
C16_Witness ==
    /\ pc = "done"
    /\ shutdown
    /\ frame_id < num_frames
    /\ updated = <<1>>
    /\ Len(published) = 1
    /\ published[1].events # <<>>

\* how many times e occurs in evs
Count(evs, e) == Cardinality({i \in 1 .. Len(evs) : evs[i] = e})

\* two lists hold the same events, each as many times
SameEvents(a, b) ==
    /\ Len(a) = Len(b)
    /\ \A i \in 1 .. Len(a) : Count(a, a[i]) = Count(b, a[i])

\* C17: an iteration publishes a batch exactly when its frame's timestamp
\* minus last_pub_event_timestamp exceeds delta_event; the batch then holds
\* the buffered events and those update just returned, each as many times
\* as it was returned, and is tagged with the frame's timestamp, the buffer
\* becomes empty and last_pub_event_timestamp the frame's timestamp;
\* otherwise the buffer gets the returned events appended and nothing else
\* changes.  At all times the published batches and the buffer together
\* hold exactly the events update has returned: none twice, none dropped.
C17_BufferAccounting ==
    [][/\ pc = "frame" /\ pc' = "loop" =>
            IF t' - last_pub_event_timestamp > delta_event
            THEN /\ Len(published') = Len(published) + 1
                 /\ SubSeq(published', 1, Len(published)) = published
                 /\ published'[Len(published')].stamp = t'
                 /\ SameEvents(published'[Len(published')].events,
                               events \o current_events')
                 /\ events' = <<>>
                 /\ last_pub_event_timestamp' = t'
            ELSE /\ published' = published
                 /\ events' = events \o current_events'
                 /\ last_pub_event_timestamp' = last_pub_event_timestamp
       /\ ~(pc = "frame" /\ pc' = "loop") =>
            UNCHANGED <<published, events, last_pub_event_timestamp>>
       /\ SameEvents(Concatenated(published') \o events', returned')
      ]_vars

\* C17 witness: the one batch published so far holds events of two calls of
\* update: those of the first call waited in the buffer for the second, which
\* returned events too.
C17_Witness ==
    /\ Len(published) = 1
    /\ updated = <<1, 2>>
    /\ events = <<>>
    /\ current_events # <<>>
    /\ Len(published[1].events) > Len(current_events)
    /\ published[1].stamp = t

=============================================================================
